---- MODULE Spec2Model ----
(***************************************************************************)
(* A model of jesture/detection/landmark_detector.py: class                *)
(* LandmarkDetector, a wrapper around a MediaPipe Hands engine.            *)
(*                                                                         *)
(* Python values are modelled as follows.                                  *)
(*   - a float coordinate is an integer, 1 standing for 1.0, so the        *)
(*     normalized range [0.0, 1.0] is 0..1;                                *)
(*   - a NormalizedLandmark is a record [x, y];                            *)
(*   - a NormalizedLandmarkList (one hand) is a record [landmark |-> seq]; *)
(*   - an optional list is [is_none, list];                                *)
(*   - a dict is the sequence of its <<key, value>> items in insertion     *)
(*     order (Python dicts keep insertion order);                          *)
(*   - the heap maps addresses to dict objects, so that two references     *)
(*     to one object can be told from two equal objects.                   *)
(***************************************************************************)
EXTENDS Integers, Sequences, FiniteSets, TLC

VARIABLES
    self,            \* the detector's attributes: [hand_processor |-> handle]
    engine_tracking, \* the engine's internal state: hands seen in the last frame
    rgb_frame,       \* the caller's frame passed to the last call, as it is after the call
    engine_result,   \* what hand_processor.process did on the last call
    op,              \* the last operation called
    args,            \* the arguments of the last call, after rgb_frame
    ret,             \* what the last call gave its caller
    process_calls,   \* how often the last call invoked hand_processor.process
    heap,            \* address -> dict object
    held,            \* the caller's references to returned mappings, oldest first
    prev             \* summary of the call before the last one

vars == <<self, engine_tracking, rgb_frame, engine_result, op, args,
          ret, process_calls, heap, held, prev>>

---------------------------------------------------------------------------
\* Bounds of the model.

MaxHands == 2
MaxLandmarks == 2
NumAddrs == 3

\* Sample hand poses. The i-th landmark (from 0) of an "open" hand is at
\* (0,1), (1,0), (0,1), ..., of a "shut" hand at (1,0), (0,1), (1,0), ...;
\* an "edge" hand lies off the frame, where MediaPipe reports coordinates
\* outside [0.0, 1.0]: (2,0), (2,1), (2,0), ...
Poses == {"open", "shut", "edge"}
SeqPoses == {"open", "edge"}

LandmarkAt(pose, i) ==
    CASE pose = "open" -> [x |-> i % 2, y |-> (i + 1) % 2]
      [] pose = "shut" -> [x |-> (i + 1) % 2, y |-> i % 2]
      [] OTHER -> [x |-> 2, y |-> i % 2]

\* Frames a caller may pass: a well-formed RGB raster, and a malformed one
\* (a single channel) that the engine rejects.
Frames == {"rgb", "gray"}

Confidences == {5}

Addrs == 1..NumAddrs

---------------------------------------------------------------------------
\* Sequences of bounded length.

SeqsUpTo(S, n) == UNION { [1..k -> S] : k \in 0..n }

\* The hands (NormalizedLandmarkList) of these poses with at most maxLm
\* landmarks.
HandsOf(poses, maxLm) ==
    { [landmark |-> [i \in 1..k |-> LandmarkAt(p, i - 1)]] : p \in poses, k \in 0..maxLm }

NoneList == [is_none |-> TRUE, list |-> <<>>]
SomeList(l) == [is_none |-> FALSE, list |-> l]

\* The NamedTuple results an engine configured for n hands can return.
ProcessResults(n, poses, maxLm) ==
    { [multi_hand_landmarks |-> NoneList] } \cup
    { [multi_hand_landmarks |-> SomeList(l)] : l \in SeqsUpTo(HandsOf(poses, maxLm), n) }

NoResults == [multi_hand_landmarks |-> NoneList]

Returned(r) == [ok |-> TRUE, results |-> r, error |-> "none"]
Raised(e) == [ok |-> FALSE, results |-> NoResults, error |-> e]

\* What hand_processor.process(frame) can do: reject a malformed frame, fail
\* inside, or return results.
EngineOutcomes(frame, n, poses, maxLm) ==
    IF frame = "gray"
    THEN { Raised("ValueError") }
    ELSE { Raised("RuntimeError") } \cup
         { Returned(r) : r \in ProcessResults(n, poses, maxLm) }

---------------------------------------------------------------------------
\* dict operations.

DictKeys(d) == { d[i][1] : i \in DOMAIN d }

DictIndex(d, k) == CHOOSE i \in DOMAIN d : d[i][1] = k

\* d.setdefault(k, v): a present key keeps its value.
DictSetDefault(d, k, v) ==
    IF k \in DictKeys(d) THEN d ELSE Append(d, <<k, v>>)

\* del d[k]; d[k] = v: a present key moves to the end.
DictSetMoveToEnd(d, k, v) ==
    Append(SelectSeq(d, LAMBDA item : item[1] # k), <<k, v>>)

\* d[k] = v: a present key keeps its place and takes the value, a new key
\* goes to the end.
DictSet(d, k, v) ==
    IF k \in DictKeys(d)
    THEN [d EXCEPT ![DictIndex(d, k)] = <<k, v>>]
    ELSE Append(d, <<k, v>>)

NoValue == <<>>

\* What a call gives its caller.
RetDict(a) == [kind |-> "dict", ref |-> a, val |-> NoValue, error |-> "none"]
RetTuple(v) == [kind |-> "tuple", ref |-> 0, val |-> v, error |-> "none"]
RetNone == [kind |-> "None", ref |-> 0, val |-> NoValue, error |-> "none"]
RetRaise(e) == [kind |-> "raise", ref |-> 0, val |-> NoValue, error |-> e]
RetInit == [kind |-> "init", ref |-> 0, val |-> NoValue, error |-> "none"]

\* d[k]: an absent key raises.
DictSubscript(d, k) ==
    IF k \in DictKeys(d) THEN RetTuple(d[DictIndex(d, k)][2]) ELSE RetRaise("KeyError")

\* d.get(k, None)
DictGet(d, k) ==
    IF k \in DictKeys(d) THEN RetTuple(d[DictIndex(d, k)][2]) ELSE RetNone

---------------------------------------------------------------------------
\* The heap of dict objects.

FreeCell == [live |-> FALSE, items |-> <<>>]
DictCell(d) == [live |-> TRUE, items |-> d]

Range(s) == { s[i] : i \in DOMAIN s }

\* The lowest free address.
AllocAddr(h) ==
    CHOOSE a \in Addrs : ~h[a].live /\ \A b \in Addrs : b < a => h[b].live

\* An object no reference of the caller reaches is collected.
Release(h, a, refs) == IF a \in Range(refs) THEN h ELSE [h EXCEPT ![a] = FreeCell]

---------------------------------------------------------------------------
\* LandmarkDetector.__init__

Hands(max_num_hands, min_detection_confidence, min_tracking_confidence) ==
    [max_num_hands |-> max_num_hands,
     min_detection_confidence |-> min_detection_confidence,
     min_tracking_confidence |-> min_tracking_confidence,
     open |-> TRUE]

LandmarkDetectorInit(max_num_hands, min_detection_confidence, min_tracking_confidence) ==
    [hand_processor |->
        Hands(max_num_hands, min_detection_confidence, min_tracking_confidence)]

---------------------------------------------------------------------------
\* LandmarkDetector.fetch_landmarks

\* process skipped while the engine tracks a hand: no invocation, no hands.
ProcessSkippedWhileTracking(out) ==
    IF engine_tracking
    THEN [calls |-> 0, out |-> Returned(NoResults)]
    ELSE [calls |-> 1, out |-> out]

\* process tried again after a failure, which then counts as no hands.
ProcessRetried(out) ==
    IF out.ok
    THEN [calls |-> 1, out |-> out]
    ELSE [calls |-> 2, out |-> Returned(NoResults)]

\* self.hand_processor.process(rgb_frame): one invocation, whose outcome (a
\* NamedTuple or an exception) is the call's.
Process(out) == [calls |-> 1, out |-> out]

\* with self.hand_processor: the handle is closed when the block is left.
HandProcessorClosed(hand_processor) == [hand_processor EXCEPT !.open = FALSE]

\* The handle after self.hand_processor.process(rgb_frame): the attribute is
\* read, and neither assigned nor closed.
HandProcessorAfter(hand_processor) == hand_processor

MultiHandLandmarks(process_results) == process_results.multi_hand_landmarks

\* A dict kept from call to call: the caller's most recent mapping, if any.
ReusedLandmarkMap(h) ==
    IF held = <<>>
    THEN LET a == CHOOSE a \in Addrs : ~h[a].live
         IN  [ref |-> a, heap |-> [h EXCEPT ![a] = [live |-> TRUE, items |-> <<>>]]]
    ELSE [ref |-> held[Len(held)], heap |-> h]

\* landmark_map = {}: a new, empty dict object.
NewLandmarkMap(h) ==
    LET a == AllocAddr(h) IN [ref |-> a, heap |-> [h EXCEPT ![a] = DictCell(<<>>)]]

\* multi_hand_landmarks == []: None is not the empty list.
NotHandsEmptyList(mhl) == ~mhl.is_none /\ mhl.list = <<>>

\* not multi_hand_landmarks: None and the empty list are falsy.
NotHands(mhl) == mhl.is_none \/ mhl.list = <<>>

\* enumerate(landmark_container): ids count from 0.
Enumerate(container) == [i \in DOMAIN container |-> <<i - 1, container[i]>>]

\* (landmark.y, landmark.x)
LandmarkYX(landmark) == <<landmark.y, landmark.x>>

\* (landmark.x, landmark.y)
LandmarkXY(landmark) == <<landmark.x, landmark.y>>

\* The inner loop: for landmark_id, landmark in enumerate(landmark_container),
\* from the i-th item on.
RECURSIVE AddLandmarks(_, _, _)
AddLandmarks(d, items, i) ==
    IF i > Len(items) THEN d
    ELSE AddLandmarks(DictSet(d, items[i][1], LandmarkXY(items[i][2])), items, i + 1)

\* landmark_map = {} inside the outer loop: only the last hand is kept.
AddHandsLastOnly(d, hands, j) ==
    IF hands = <<>> THEN d
    ELSE AddLandmarks(<<>>, Enumerate(hands[Len(hands)].landmark), 1)

\* The outer loop: for hand_landmarks in multi_hand_landmarks, from the j-th
\* hand on.
RECURSIVE AddHands(_, _, _)
AddHands(d, hands, j) ==
    IF j > Len(hands) THEN d
    ELSE AddHands(AddLandmarks(d, Enumerate(hands[j].landmark), 1), hands, j + 1)

\* The body of fetch_landmarks on heap h when process does `out`: what it
\* gives its caller, the heap it leaves, and the engine invocations it made.
fetch_landmarks(h, out) ==
    LET p == Process(out) IN
    IF ~p.out.ok
    THEN [ret |-> RetRaise(p.out.error), heap |-> h, calls |-> p.calls]
    ELSE
      LET mhl == MultiHandLandmarks(p.out.results)
          m == NewLandmarkMap(h)
      IN  IF NotHands(mhl)
          THEN [ret |-> RetDict(m.ref), heap |-> m.heap, calls |-> p.calls]
          ELSE IF mhl.is_none
          THEN \* iterating None
               [ret |-> RetRaise("TypeError"), heap |-> h, calls |-> p.calls]
          ELSE [ret |-> RetDict(m.ref),
                heap |-> [m.heap EXCEPT ![m.ref] =
                            DictCell(AddHands(m.heap[m.ref].items, mhl.list, 1))],
                calls |-> p.calls]

\* The engine's own state after process did `out`.
EngineAfter(out) ==
    IF out.ok
    THEN ~NotHands(out.results.multi_hand_landmarks)
    ELSE engine_tracking

\* The references the caller keeps when it asks for a new mapping: the most
\* recent one.
Kept == IF held = <<>> THEN <<>> ELSE <<held[Len(held)]>>

\* What a call on (frame, out) remembers of the call before it.
Summary(frame, out) ==
    [fetched_same |-> (op = "fetch_landmarks" /\ frame = rgb_frame /\ out = engine_result),
     raised |-> (ret.kind = "raise")]

\* The heap once the caller has dropped all but the references it keeps.
Dropped == [a \in Addrs |-> IF a \in Range(Kept) THEN heap[a] ELSE FreeCell]

\* A call of fetch_landmarks(frame) during which process does `out`.
FetchLandmarks(frame, out) ==
    LET r == fetch_landmarks(Dropped, out)
    IN  /\ heap' = r.heap
        /\ ret' = r.ret
        /\ held' = IF r.ret.kind = "dict" THEN Append(Kept, r.ret.ref) ELSE Kept
        /\ process_calls' = r.calls
        /\ engine_tracking' = EngineAfter(out)
        /\ rgb_frame' = frame
        /\ engine_result' = out
        /\ op' = "fetch_landmarks"
        /\ args' = <<>>
        /\ prev' = Summary(frame, out)
        /\ self' = [self EXCEPT !.hand_processor = HandProcessorAfter(@)]

---------------------------------------------------------------------------
\* LandmarkDetector.fetch_landmark_position

\* A call of fetch_landmark_position(frame, id) during which process does
\* `out`; the mapping it builds is dropped when it returns. The caller keeps
\* its most recent mapping.
FetchLandmarkPosition(frame, out, id) ==
    LET r == fetch_landmarks(Dropped, out)
    IN  /\ ret' = IF r.ret.kind = "dict"
                  THEN DictGet(r.heap[r.ret.ref].items, id)
                  ELSE r.ret
        /\ heap' = IF r.ret.kind = "dict"
                   THEN Release(r.heap, r.ret.ref, Kept)
                   ELSE r.heap
        /\ process_calls' = r.calls
        /\ engine_tracking' = EngineAfter(out)
        /\ rgb_frame' = frame
        /\ engine_result' = out
        /\ op' = "fetch_landmark_position"
        /\ args' = <<id>>
        /\ prev' = Summary(frame, out)
        /\ held' = Kept
        /\ self' = [self EXCEPT !.hand_processor = HandProcessorAfter(@)]

---------------------------------------------------------------------------
\* Spec: one detector and one static image, for which the engine does the
\* same thing on every call (a deterministic engine).

LandmarkIds(maxLm) == (0 - 1)..maxLm

InitWith(maxH, poses, maxLm) ==
    /\ \E n \in 1..maxH, d \in Confidences, t \in Confidences :
          /\ self = LandmarkDetectorInit(n, d, t)
          /\ rgb_frame \in Frames
          /\ engine_result \in EngineOutcomes(rgb_frame, n, poses, maxLm)
    /\ engine_tracking = FALSE
    /\ op = "init"
    /\ args = <<>>
    /\ ret = RetInit
    /\ process_calls = 0
    /\ heap = [a \in Addrs |-> FreeCell]
    /\ held = <<>>
    /\ prev = [fetched_same |-> FALSE, raised |-> FALSE]

Init == InitWith(MaxHands, Poses, MaxLandmarks)

StillFetchLandmarks == FetchLandmarks(rgb_frame, engine_result)

StillFetchLandmarkPosition ==
    \E id \in LandmarkIds(MaxLandmarks) :
        FetchLandmarkPosition(rgb_frame, engine_result, id)

Next == StillFetchLandmarks \/ StillFetchLandmarkPosition

Spec == Init /\ [][Next]_vars

---------------------------------------------------------------------------
\* SpecSeq: a detector made for one hand and a sequence of frames; the engine
\* may do something else on every call.

InitSeq == InitWith(1, SeqPoses, MaxLandmarks)

\* What the engine can do on each frame.
SeqOutcomes ==
    [f \in Frames |->
        EngineOutcomes(f, self.hand_processor.max_num_hands, SeqPoses, MaxLandmarks)]

SeqFetchLandmarks ==
    \E f \in Frames :
        \E out \in SeqOutcomes[f] :
            FetchLandmarks(f, out)

SeqFetchLandmarkPosition ==
    \E f \in Frames, id \in LandmarkIds(MaxLandmarks) :
        \E out \in SeqOutcomes[f] :
            FetchLandmarkPosition(f, out, id)

NextSeq == SeqFetchLandmarks \/ SeqFetchLandmarkPosition

SpecSeq == InitSeq /\ [][NextSeq]_vars

---------------------------------------------------------------------------
\* What the claims speak of.

\* The last call was fetch_landmarks and the engine returned results.
FetchedResults == op = "fetch_landmarks" /\ engine_result.ok

\* The list of hands the engine returned on the last call.
HandList == engine_result.results.multi_hand_landmarks.list

\* The engine reported hands (a list, not None) on the last call.
HasHandList == engine_result.ok /\ ~engine_result.results.multi_hand_landmarks.is_none

\* The items of the mapping the last call returned.
Map == heap[ret.ref].items

\* How many landmarks the j-th hand has, and the (x, y) of its landmark i.
Count(j) == Len(HandList[j].landmark)
XYOf(j, i) == <<HandList[j].landmark[i + 1].x, HandList[j].landmark[i + 1].y>>

\* The positions of key k in a dict, and its value.
Places(d, k) == { p \in DOMAIN d : d[p][1] = k }
ValueAt(d, k) == d[CHOOSE p \in Places(d, k) : TRUE][2]

Min(a, b) == IF a < b THEN a ELSE b

\* dict == dict: the same items, whatever their order.
DictEq(d, e) == { d[i] : i \in DOMAIN d } = { e[i] : i \in DOMAIN e }

InUnitRange(c) == c >= 0 /\ c <= 1

---------------------------------------------------------------------------
\* C1: with two detected hands, every landmark id both hands have is in the
\* returned mapping exactly once, with the (x, y) of the second hand.
C1_LastHandWins ==
    (FetchedResults /\ HasHandList /\ Len(HandList) = 2) =>
        /\ ret.kind = "dict"
        /\ \A i \in 0..(Min(Count(1), Count(2)) - 1) :
              /\ Cardinality(Places(Map, i)) = 1
              /\ ValueAt(Map, i) = XYOf(2, i)

\* Two hands that differ at an id both have, flattened.
C1_Witness ==
    /\ FetchedResults /\ HasHandList /\ Len(HandList) = 2
    /\ ret.kind = "dict"
    /\ Count(1) >= 2 /\ Count(2) >= 2
    /\ XYOf(1, 0) # XYOf(2, 0)
    /\ XYOf(1, 1) # XYOf(2, 1)

---------------------------------------------------------------------------
\* C2: on a static image, fetch_landmark_position(frame, id) gives what
\* fetch_landmarks(frame).get(id) gives: the value the mapping returned by
\* fetch_landmarks holds at id, or None when id is not a key of it (or no hand
\* is detected); it raises only what the engine raised.
C2_PositionIsGet ==
    op = "fetch_landmark_position" =>
        /\ engine_result.ok => ret.kind \in {"tuple", "None"}
        /\ ~engine_result.ok => ret = RetRaise(engine_result.error)
        /\ (engine_result.ok /\ held # <<>>) =>
              LET m == heap[held[Len(held)]].items
                  id == args[1]
              IN  IF Places(m, id) # {}
                  THEN ret = RetTuple(ValueAt(m, id))
                  ELSE ret = RetNone

\* An id that is absent from a non-empty mapping fetch_landmarks returned.
C2_Witness ==
    /\ op = "fetch_landmark_position"
    /\ engine_result.ok
    /\ held # <<>>
    /\ heap[held[Len(held)]].items # <<>>
    /\ Places(heap[held[Len(held)]].items, args[1]) = {}
    /\ ret = RetNone

---------------------------------------------------------------------------
\* C3: when the engine reports no hands (None or an empty list),
\* fetch_landmarks returns an empty mapping and does not raise.
C3_NoHandsEmptyMap ==
    (FetchedResults /\ (~HasHandList \/ Len(HandList) = 0)) =>
        /\ ret.kind = "dict"
        /\ Map = <<>>

\* The engine reported None, and fetch_landmarks returned.
C3_Witness ==
    /\ FetchedResults
    /\ ~HasHandList
    /\ ret.kind = "dict"

---------------------------------------------------------------------------
\* The last call was fetch_landmarks on exactly one detected hand.
OneHand == FetchedResults /\ HasHandList /\ Len(HandList) = 1

\* C4 (as claimed): with exactly one detected hand of N landmarks, the mapping
\* has exactly N entries, its keys are exactly 0..N-1, the value at key i is
\* the (x, y) of the i-th landmark, and each coordinate is in [0.0, 1.0].
C4_OneHandInUnitRange ==
    OneHand =>
        /\ ret.kind = "dict"
        /\ Len(Map) = Count(1)
        /\ DictKeys(Map) = 0..(Count(1) - 1)
        /\ \A i \in 0..(Count(1) - 1) :
              /\ ValueAt(Map, i) = XYOf(1, i)
              /\ InUnitRange(ValueAt(Map, i)[1])
              /\ InUnitRange(ValueAt(Map, i)[2])

\* C4 (amended): with exactly one detected hand of N landmarks, the mapping
\* has exactly N entries, its keys are exactly 0..N-1, and the value at key i
\* is the (x, y) the engine reported for the i-th landmark, unchanged: a
\* coordinate is in [0.0, 1.0] exactly when the engine reported it there.
C4_OneHandPassedThrough ==
    OneHand =>
        /\ ret.kind = "dict"
        /\ Len(Map) = Count(1)
        /\ DictKeys(Map) = 0..(Count(1) - 1)
        /\ \A i \in 0..(Count(1) - 1) :
              /\ ValueAt(Map, i) = XYOf(1, i)
              /\ InUnitRange(ValueAt(Map, i)[1]) <=> InUnitRange(HandList[1].landmark[i + 1].x)
              /\ InUnitRange(ValueAt(Map, i)[2]) <=> InUnitRange(HandList[1].landmark[i + 1].y)

\* One hand of at least two landmarks, one of them off the frame, flattened.
C4_Witness ==
    /\ OneHand
    /\ ret.kind = "dict"
    /\ Count(1) >= 2
    /\ \E i \in 0..(Count(1) - 1) : ~InUnitRange(XYOf(1, i)[1])

---------------------------------------------------------------------------
\* C5: fetch_landmarks called twice in a row on the same frame, the engine
\* doing the same both times, ends the same way both times, and when it
\* returns, the two mappings are equal.
C5_SameFrameSameMap ==
    (op = "fetch_landmarks" /\ prev.fetched_same) =>
        /\ (ret.kind = "raise") <=> prev.raised
        /\ ret.kind = "dict" =>
              /\ Len(held) = 2
              /\ DictEq(heap[held[1]].items, heap[held[2]].items)

\* Two calls in a row that returned a mapping with entries.
C5_Witness ==
    /\ op = "fetch_landmarks"
    /\ prev.fetched_same
    /\ ret.kind = "dict"
    /\ Len(held) = 2
    /\ Len(Map) >= 2
    /\ DictEq(heap[held[1]].items, heap[held[2]].items)

---------------------------------------------------------------------------
\* C6: when process fails during either call, the call raises that failure,
\* returns nothing in its place and invokes process once; the detector is
\* usable afterwards: its handle is open, and a next call in which process
\* succeeds returns.
C6_FailurePropagates ==
    /\ (op # "init" /\ ~engine_result.ok) =>
          /\ ret = RetRaise(engine_result.error)
          /\ process_calls = 1
          /\ \A a \in Addrs : heap[a].live => a \in Range(held)
    /\ self.hand_processor.open
    /\ (op # "init" /\ prev.raised /\ engine_result.ok) =>
          /\ ret.kind \in {"dict", "tuple", "None"}
          /\ process_calls = 1

\* A call that returns a mapping with entries right after a call that raised.
C6_Witness ==
    /\ op = "fetch_landmarks"
    /\ prev.raised
    /\ ret.kind = "dict"
    /\ Map # <<>>

---------------------------------------------------------------------------
\* C7: no call changes the caller's frame or the detector's attributes: self
\* keeps its one attribute, hand_processor, with the same handle, which stays
\* open.
C7_OnlyEngineStateChanges ==
    [][/\ rgb_frame' = rgb_frame
       /\ self' = self
       /\ DOMAIN self' = {"hand_processor"}
       /\ self'.hand_processor.open]_vars

\* Calls were made, the engine's own state changed, the detector did not.
C7_Witness ==
    /\ op = "fetch_landmark_position"
    /\ prev.fetched_same
    /\ engine_tracking
    /\ self.hand_processor.open

---------------------------------------------------------------------------
\* C8: the mapping fetch_landmarks returns holds only entries of that call's
\* engine result, is another object than the mapping the caller still holds
\* from before, and no call changes a mapping the caller holds.
C8_FreshMapPerCall ==
    /\ [](FetchedResults =>
            /\ ret.kind = "dict"
            /\ \A p \in DOMAIN Map :
                  /\ HasHandList
                  /\ \E j \in DOMAIN HandList :
                        /\ Map[p][1] \in 0..(Count(j) - 1)
                        /\ Map[p][2] = XYOf(j, Map[p][1]))
    /\ [][/\ \A a \in Range(Kept) : a \in Range(held') /\ heap'[a] = heap[a]
          /\ ret'.kind = "dict" => ret'.ref \notin Range(Kept)]_vars

\* The caller holds two mappings, and the earlier one has an entry that the
\* later one, returned for another engine result, has not.
C8_Witness ==
    /\ op = "fetch_landmarks"
    /\ ret.kind = "dict"
    /\ Len(held) = 2
    /\ held[1] # held[2]
    /\ \E p \in DOMAIN heap[held[1]].items :
          Places(Map, heap[held[1]].items[p][1]) = {}

---------------------------------------------------------------------------
\* The first hand that writes key k.
FirstHand(k) == CHOOSE j \in DOMAIN HandList :
                    /\ Count(j) > k
                    /\ \A jj \in DOMAIN HandList : Count(jj) > k => j <= jj

\* C9: the mapping's items are in the order in which their keys were first
\* written, hand after hand and landmark after landmark within a hand; a key a
\* later hand overwrites keeps its place.
C9_FirstWriteOrder ==
    (FetchedResults /\ HasHandList /\ ret.kind = "dict") =>
        \A p, q \in DOMAIN Map :
            p < q =>
                \/ FirstHand(Map[p][1]) < FirstHand(Map[q][1])
                \/ /\ FirstHand(Map[p][1]) = FirstHand(Map[q][1])
                   /\ Map[p][1] < Map[q][1]

\* A later, shorter hand overwrote key 0 with another value: key 0 is still
\* first, before the key only the first hand has.
C9_Witness ==
    /\ FetchedResults /\ HasHandList /\ ret.kind = "dict"
    /\ Len(HandList) = 2
    /\ Count(1) = 2 /\ Count(2) = 1
    /\ XYOf(1, 0) # XYOf(2, 0)
    /\ Map = << <<0, XYOf(2, 0)>>, <<1, XYOf(1, 1)>> >>

---------------------------------------------------------------------------
\* The largest landmark count over the hands, 0 without hands.
RECURSIVE MaxCount(_)
MaxCount(j) ==
    IF j = 0 THEN 0
    ELSE IF Count(j) > MaxCount(j - 1) THEN Count(j) ELSE MaxCount(j - 1)

\* The last hand that has more than i landmarks.
LastHand(i) == CHOOSE j \in DOMAIN HandList :
                   /\ Count(j) > i
                   /\ \A jj \in DOMAIN HandList : Count(jj) > i => jj <= j

\* C10: for any hands, the mapping's keys are exactly 0..M-1, M the largest
\* landmark count over the hands, each once, and the value at key i is the
\* (x, y) of landmark i of the last hand that has more than i landmarks; the
\* mapping is empty when no hand has a landmark.
C10_KeysAndLastLongEnoughHand ==
    (FetchedResults /\ HasHandList) =>
        /\ ret.kind = "dict"
        /\ Len(Map) = MaxCount(Len(HandList))
        /\ DictKeys(Map) = 0..(MaxCount(Len(HandList)) - 1)
        /\ \A i \in 0..(MaxCount(Len(HandList)) - 1) :
              ValueAt(Map, i) = XYOf(LastHand(i), i)

\* The last hand is shorter than an earlier one, whose value stays at the
\* key the last hand has not.
C10_Witness ==
    /\ FetchedResults /\ HasHandList /\ ret.kind = "dict"
    /\ Len(HandList) >= 2
    /\ Count(Len(HandList)) >= 1
    /\ Count(Len(HandList)) < MaxCount(Len(HandList))
    /\ LastHand(MaxCount(Len(HandList)) - 1) # Len(HandList)
    /\ ValueAt(Map, 0) # XYOf(1, 0)

====
